---- MODULE Spec2Model ----
(***************************************************************************)
(* Model of scriptable-mijnsimpel.js: the file cache (getCachedData,       *)
(* cacheData), the credential prompt, the three network stages and the     *)
(* orchestrator run().                                                     *)
(*                                                                         *)
(* JavaScript values are tagged records; a file or a response body is a    *)
(* text, modelled as a sequence of JSON tokens, so that JSON.stringify and *)
(* JSON.parse are real conversions between values and texts.               *)
(***************************************************************************)
EXTENDS Integers, Sequences, FiniteSets, TLC

(***************************************************************************)
(* Bounds of the model.                                                    *)
(***************************************************************************)
\* longest array (and cookie sequence) the inputs are drawn from
MaxLen == 2
\* number of runs of the script in one behaviour
MaxRuns == 3

(***************************************************************************)
(* JavaScript values.                                                      *)
(***************************************************************************)
Undefined == [t |-> "undefined"]
Null == [t |-> "null"]
Str(s) == [t |-> "string", s |-> s]
Num(n) == [t |-> "number", n |-> n]
Bool(b) == [t |-> "boolean", b |-> b]
Arr(a) == [t |-> "array", a |-> a]
\* an object is the sequence of its own properties, in insertion order
Obj(m) == [t |-> "object", m |-> m]
Member(key, val) == [key |-> key, val |-> val]

\* the outcome of an expression that throws
Thrown(e) == [t |-> "throw", e |-> e]
IsThrown(v) == v.t = "throw"

\* o.key: undefined for a missing property, a TypeError on undefined or null
GetProp(o, key) ==
  IF o.t \in {"undefined", "null"} THEN Thrown("TypeError")
  ELSE IF o.t = "object" /\ \E i \in 1..Len(o.m) : o.m[i].key = key
    THEN o.m[CHOOSE i \in 1..Len(o.m) : o.m[i].key = key].val
    ELSE Undefined

\* o[key] = val on the property list of an object being built
SetMember(m, key, val) ==
  IF \E i \in 1..Len(m) : m[i].key = key
    THEN [i \in 1..Len(m) |-> IF m[i].key = key THEN Member(key, val) ELSE m[i]]
    ELSE Append(m, Member(key, val))

(***************************************************************************)
(* JSON texts: sequences of tokens.                                        *)
(***************************************************************************)
Punct(c) == [k |-> c]
StrTok(s) == [k |-> "str", s |-> s]
NumTok(n) == [k |-> "num", n |-> n]
BoolTok(b) == [k |-> "bool", b |-> b]
NullTok == [k |-> "null"]

RECURSIVE JoinTexts(_, _)
\* texts[1] sep texts[2] sep ... texts[n]
JoinTexts(texts, sep) ==
  IF Len(texts) = 0 THEN <<>>
  ELSE IF Len(texts) = 1 THEN texts[1]
  ELSE texts[1] \o sep \o JoinTexts(Tail(texts), sep)

RECURSIVE SerializeMut(_)
\* a serializer that leaves out the null elements of an array
SerializeMut(v) ==
  CASE v.t \in {"null", "undefined"} -> <<NullTok>>
    [] v.t = "string" -> <<StrTok(v.s)>>
    [] v.t = "number" -> <<NumTok(v.n)>>
    [] v.t = "boolean" -> <<BoolTok(v.b)>>
    [] v.t = "array" ->
         LET kept == SelectSeq(v.a, LAMBDA e : e.t \notin {"undefined", "null"})
         IN <<Punct("[")>>
            \o JoinTexts([i \in 1..Len(kept) |-> SerializeMut(kept[i])], <<Punct(",")>>)
            \o <<Punct("]")>>
    [] v.t = "object" ->
         LET own == SelectSeq(v.m, LAMBDA p : p.val.t # "undefined")
         IN <<Punct("{")>>
            \o JoinTexts([i \in 1..Len(own) |->
                            <<StrTok(own[i].key), Punct(":")>> \o SerializeMut(own[i].val)],
                         <<Punct(",")>>)
            \o <<Punct("}")>>

RECURSIVE Serialize(_)
\* the text JSON.stringify gives a value inside a document: an undefined
\* array element is written as null, an undefined property is left out
Serialize(v) ==
  CASE v.t \in {"null", "undefined"} -> <<NullTok>>
    [] v.t = "string" -> <<StrTok(v.s)>>
    [] v.t = "number" -> <<NumTok(v.n)>>
    [] v.t = "boolean" -> <<BoolTok(v.b)>>
    [] v.t = "array" ->
         <<Punct("[")>>
         \o JoinTexts([i \in 1..Len(v.a) |-> Serialize(v.a[i])], <<Punct(",")>>)
         \o <<Punct("]")>>
    [] v.t = "object" ->
         LET own == SelectSeq(v.m, LAMBDA p : p.val.t # "undefined")
         IN <<Punct("{")>>
            \o JoinTexts([i \in 1..Len(own) |->
                            <<StrTok(own[i].key), Punct(":")>> \o Serialize(own[i].val)],
                         <<Punct(",")>>)
            \o <<Punct("}")>>

\* a JavaScript string holding a JSON text
Text(toks) == [t |-> "text", text |-> toks]

\* a stringify that writes undefined as null at the top level too
JSONstringifyMut(v) == Text(Serialize(v))

\* JSON.stringify: undefined at the top level gives undefined, not a string
JSONstringify(v) == IF v.t = "undefined" THEN Undefined ELSE Text(Serialize(v))

\* result of parsing one value that starts at token i
ParseOk(val, next) == [ok |-> TRUE, val |-> val, next |-> next]
ParseFail == [ok |-> FALSE, val |-> Undefined, next |-> 0]
TokAt(text, i) == IF i \in 1..Len(text) THEN text[i].k ELSE "eof"

RECURSIVE ParseValue(_, _), ParseElements(_, _, _), ParseMembers(_, _, _)
ParseValue(text, i) ==
  LET k == TokAt(text, i) IN
  CASE k = "null" -> ParseOk(Null, i + 1)
    [] k = "str" -> ParseOk(Str(text[i].s), i + 1)
    [] k = "num" -> ParseOk(Num(text[i].n), i + 1)
    [] k = "bool" -> ParseOk(Bool(text[i].b), i + 1)
    [] k = "[" -> IF TokAt(text, i + 1) = "]" THEN ParseOk(Arr(<<>>), i + 2)
                  ELSE ParseElements(text, i + 1, <<>>)
    [] k = "{" -> IF TokAt(text, i + 1) = "}" THEN ParseOk(Obj(<<>>), i + 2)
                  ELSE ParseMembers(text, i + 1, <<>>)
    [] OTHER -> ParseFail

ParseElements(text, i, acc) ==
  LET r == ParseValue(text, i) IN
  IF ~r.ok THEN ParseFail
  ELSE IF TokAt(text, r.next) = "," THEN ParseElements(text, r.next + 1, Append(acc, r.val))
  ELSE IF TokAt(text, r.next) = "]" THEN ParseOk(Arr(Append(acc, r.val)), r.next + 1)
  ELSE ParseFail

ParseMembers(text, i, acc) ==
  IF TokAt(text, i) # "str" \/ TokAt(text, i + 1) # ":" THEN ParseFail
  ELSE LET r == ParseValue(text, i + 2) IN
    IF ~r.ok THEN ParseFail
    ELSE IF TokAt(text, r.next) = ","
      THEN ParseMembers(text, r.next + 1, SetMember(acc, text[i].s, r.val))
    ELSE IF TokAt(text, r.next) = "}"
      THEN ParseOk(Obj(SetMember(acc, text[i].s, r.val)), r.next + 1)
    ELSE ParseFail

\* JSON.parse: the value of the text, or a SyntaxError
JSONparse(text) ==
  LET r == ParseValue(text, 1) IN
  IF r.ok /\ r.next = Len(text) + 1 THEN r.val ELSE Thrown("SyntaxError")

(***************************************************************************)
(* The cache directory in the iCloud documents directory.                  *)
(***************************************************************************)
CacheNames == {"credentials.json", "cookies.json", "sid.json"}
NoFile == [exists |-> FALSE, contents |-> <<>>]
File(text) == [exists |-> TRUE, contents |-> text]
\* the directory does not exist yet and holds no file
EmptyStorage == [dir |-> FALSE, file |-> [n \in CacheNames |-> NoFile]]

\* a reader that does not test fileExists first
getCachedDataMut(fm, fileName) ==
  IF ~fm.file[fileName].exists THEN Thrown("FileNotFound")
  ELSE JSONparse(fm.file[fileName].contents)

getCachedData(fm, fileName) ==
  IF ~fm.file[fileName].exists THEN Undefined
  ELSE JSONparse(fm.file[fileName].contents)

\* a host that ignores a write of a value that is no string
writeStringMut(fm, fileName, contents) ==
  IF contents.t # "text"
    THEN [fm |-> fm, threw |-> FALSE]
    ELSE [fm |-> [fm EXCEPT !.file[fileName] = File(contents.text)], threw |-> FALSE]

\* fileManager.writeString(cacheFile, contents): the host bridge takes a
\* string and raises a type error on any other value
writeString(fm, fileName, contents) ==
  IF contents.t # "text"
    THEN [fm |-> fm, threw |-> TRUE]
    ELSE [fm |-> [fm EXCEPT !.file[fileName] = File(contents.text)], threw |-> FALSE]

cacheData(fm, fileName, data) ==
  LET made == IF ~fm.dir THEN [fm EXCEPT !.dir = TRUE] ELSE fm
  IN writeString(made, fileName, JSONstringify(data))

(***************************************************************************)
(* Inputs: what the operator types and what the three endpoints answer.    *)
(***************************************************************************)
\* all sequences over S of length at most n
SeqsUpTo(S, n) == UNION {[1..k -> S] : k \in 0..n}

Credentials(username, password) ==
  Obj(<<Member("username", Str(username)), Member("password", Str(password))>>)
\* what the operator can type into the two text fields
PromptInputs == {Credentials("user", "secret"), Credentials("user", "wrong")}

Cookie(name, value) == Obj(<<Member("name", Str(name)), Member("value", Str(value))>>)
CookieSet == {Cookie("a", "1"), Cookie("b", "2")}
\* req.response.cookies of a login response
CookieLists == {Arr(c) : c \in SeqsUpTo(CookieSet, MaxLen)}

\* a response body that is no JSON text (an HTML page)
NotJSON == <<Punct("<"), StrTok("html"), Punct(">")>>

SubscriptionOverview(id) ==
  Obj(<<Member("mainSubscription", Obj(<<Member("subscriptionId", id)>>))>>)
\* bodies the subscription-overview endpoint can answer with
SidBodies ==
  { Serialize(SubscriptionOverview(Str("SUB123"))),
    Serialize(SubscriptionOverview(Num(7))),
    Serialize(SubscriptionOverview(Null)),
    Serialize(Obj(<<Member("mainSubscription", Obj(<<>>))>>)),
    Serialize(Obj(<<Member("mainSubscription", Null)>>)),
    Serialize(Obj(<<Member("message", Str("Unauthorized"))>>)),
    NotJSON }

Section(type, amount, totalAmount) ==
  Obj(<<Member("type", Str(type)), Member("amount", Num(amount)),
        Member("totalAmount", Num(totalAmount))>>)
Unlimited == Obj(<<Member("type", Str("unlimited"))>>)
UsageSummary ==
  Obj(<<Member("data", Section("data", 5, 10)), Member("sms", Unlimited),
        Member("voice", Section("voice", 30, 120))>>)
\* bodies the usage-summary endpoint can answer with
UsageBodies ==
  { Serialize(UsageSummary),
    Serialize(Obj(<<Member("message", Str("Forbidden"))>>)),
    Serialize(Null),
    NotJSON }
UsageStatuses == {200, 403}
LoginStatuses == {200, 401}

\* a completed HTTP exchange, or a transport fault
Response(status, body, cookies) ==
  [ok |-> TRUE, statusCode |-> status, body |-> body, cookies |-> cookies]
TransportFault == [ok |-> FALSE, statusCode |-> 0, body |-> <<>>, cookies |-> Arr(<<>>)]

LoginResponses ==
  {TransportFault}
  \cup {Response(200, <<>>, c) : c \in CookieLists}
  \cup {Response(s, <<>>, Arr(<<>>)) : s \in LoginStatuses \ {200}}
\* fetchSid never looks at the status of its response
SidResponses == {TransportFault} \cup {Response(200, b, Arr(<<>>)) : b \in SidBodies}
UsageResponses ==
  {TransportFault} \cup {Response(s, b, Arr(<<>>)) : s \in UsageStatuses, b \in UsageBodies}

(***************************************************************************)
(* Requests.                                                               *)
(***************************************************************************)
\* `${v}` in a template literal
TemplateString(v) ==
  CASE v.t = "string" -> v.s
    [] v.t = "number" -> ToString(v.n)
    [] v.t = "boolean" -> IF v.b THEN "true" ELSE "false"
    [] v.t = "null" -> "null"
    [] v.t = "undefined" -> "undefined"
    [] OTHER -> "[object Object]"

RECURSIVE JoinStringsMut(_, _)
\* a join that puts the separator after every piece, the last one too
JoinStringsMut(pieces, sep) ==
  IF Len(pieces) = 0 THEN <<>>
  ELSE pieces[1] \o <<sep>> \o JoinStringsMut(Tail(pieces), sep)

RECURSIVE JoinStrings(_, _)
\* Array.prototype.join on pieces that are sequences of strings
JoinStrings(pieces, sep) ==
  IF Len(pieces) = 0 THEN <<>>
  ELSE IF Len(pieces) = 1 THEN pieces[1]
  ELSE pieces[1] \o <<sep>> \o JoinStrings(Tail(pieces), sep)

\* cookies.map(cookie => `${cookie.name}=${cookie.value}`).join("; "), as the
\* sequence of the pieces of the header string; a TypeError when cookies has
\* no map method or an element is undefined or null
CookieHeader(cookieList) ==
  IF cookieList.t # "array" THEN [threw |-> TRUE, header |-> <<>>]
  ELSE IF \E i \in 1..Len(cookieList.a) : cookieList.a[i].t \in {"undefined", "null"}
    THEN [threw |-> TRUE, header |-> <<>>]
  ELSE [threw |-> FALSE,
        header |-> JoinStrings([i \in 1..Len(cookieList.a) |->
                      << TemplateString(GetProp(cookieList.a[i], "name")), "=",
                         TemplateString(GetProp(cookieList.a[i], "value")) >>], "; ")]

Request(url, method, headers, body) ==
  [url |-> url, method |-> method, headers |-> headers, body |-> body]

LoginURL == <<"https://api.simpel.nl/login">>
SidURL == <<"https://api.simpel.nl/account/subscription-overview">>
UsageURL(id) == <<"https://mijn.simpel.nl/api/usage/usage-summary?sid=", TemplateString(id)>>

\* the request fetchToken builds from the credentials
LoginRequest(creds) ==
  Request(LoginURL, "POST", <<"Content-Type", "application/json">>,
          JSONstringify(Obj(<<Member("username", GetProp(creds, "username")),
                              Member("password", GetProp(creds, "password")),
                              Member("remember", Bool(TRUE)),
                              Member("datetime", Str("now"))>>)))
SidRequest(header) == Request(SidURL, "GET", <<"Cookie">> \o header, Undefined)
UsageRequest(id, header) == Request(UsageURL(id), "GET", <<"Cookie">> \o header, Undefined)

ErrorPayload(code) == Obj(<<Member("errorCode", Num(code))>>)

(***************************************************************************)
(* Decisions of the code.                                                  *)
(***************************************************************************)
\* what alert.presentAlert() resolves to, with the two text fields
PromptResponses ==
  {[cancelled |-> TRUE, fields |-> Undefined]}
  \cup {[cancelled |-> FALSE, fields |-> c] : c \in PromptInputs}

\* promptForCredentials treats a cancelled alert as if it had been confirmed
promptForCredentialsMut(response) ==
  IF response.cancelled THEN Credentials("", "") ELSE response.fields

\* the alert answers -1 when it is cancelled
promptForCredentials(response) ==
  IF response.cancelled THEN Thrown("User cancelled the login prompt.")
  ELSE response.fields

\* run() logs in again although cookies are cached
CookiesMissMut(c) == TRUE
CookiesMiss(c) == c = Undefined

\* run() resolves the subscription id again although it is cached
SidMissMut(s) == TRUE
SidMiss(s) == s = Undefined

\* run() takes null, not undefined, for the absent marker
CredentialsMissMut(c) == c = Null
CredentialsMiss(c) == c = Undefined

\* fetchToken accepts any status
LoginSucceededMut(response) == TRUE
LoginSucceeded(response) == response.statusCode = 200

(***************************************************************************)
(* State.                                                                  *)
(***************************************************************************)
VARIABLES
  fileManager,  \* the cache directory and its files
  pc,           \* where run() is: idle, an await it is suspended at, or ended
  credentials,  \* locals of run()
  cookies,
  sid,
  json,
  widget,       \* what Script.setWidget was given in this run
  fault,        \* the message of the fault that ended this run
  runs,         \* runs started so far
  atStart,      \* fileManager when this run started
  sent,         \* requests sent in this run, in order
  prompts,      \* alerts presented in this run
  cancelled,    \* the alert of this run was cancelled
  responses,    \* responses[i] is what came back for sent[i]
  rejected,     \* the run and the credentials of the last prompted login that was refused
  stored,       \* per name, the value last given to cacheData by the cache client
  got           \* the last getCachedData call of the cache client

vars == <<fileManager, pc, credentials, cookies, sid, json, widget, fault, runs,
          atStart, sent, prompts, cancelled, responses, rejected, stored, got>>

history == <<runs, atStart, prompts, rejected>>
cacheClient == <<stored, got>>

NoWidget == [kind |-> "none", lines |-> <<>>]
NoRejection == [run |-> 0, credentials |-> Undefined]
NotGot == [acted |-> FALSE, fileName |-> "", value |-> Undefined]

Init ==
  /\ fileManager = EmptyStorage
  /\ pc = "idle"
  /\ credentials = Undefined
  /\ cookies = Undefined
  /\ sid = Undefined
  /\ json = Undefined
  /\ widget = NoWidget
  /\ fault = ""
  /\ runs = 0
  /\ atStart = EmptyStorage
  /\ sent = <<>>
  /\ prompts = 0
  /\ cancelled = FALSE
  /\ responses = <<>>
  /\ rejected = NoRejection
  /\ stored = [n \in CacheNames |-> Undefined]
  /\ got = NotGot

\* an unhandled fault ends the run
Abort(message) == pc' = "aborted" /\ fault' = message

(***************************************************************************)
(* run(), one action per stretch of code between two awaits.               *)
(***************************************************************************)
\* the host starts the script: lines 172-174, up to the alert
StartRun ==
  /\ pc \in {"idle", "done", "aborted"}
  /\ runs < MaxRuns
  /\ runs' = runs + 1
  /\ atStart' = fileManager
  /\ sent' = <<>>
  /\ responses' = <<>>
  /\ cancelled' = FALSE
  /\ widget' = NoWidget
  /\ cookies' = Undefined
  /\ sid' = Undefined
  /\ json' = Undefined
  /\ LET c == getCachedData(fileManager, "credentials.json") IN
       IF IsThrown(c)
         THEN Abort(c.e) /\ credentials' = Undefined /\ prompts' = 0
       ELSE IF CredentialsMiss(c)
         THEN pc' = "prompt" /\ fault' = "" /\ credentials' = c /\ prompts' = 1
       ELSE pc' = "session" /\ fault' = "" /\ credentials' = c /\ prompts' = 0
  /\ UNCHANGED <<fileManager, rejected, cacheClient>>

\* a run() that does not cache the credentials it was given at the prompt
PromptAnsweredMut ==
  /\ pc = "prompt"
  /\ \E response \in PromptResponses :
       LET c == promptForCredentials(response) IN
         /\ cancelled' = response.cancelled
         /\ IF IsThrown(c)
              THEN Abort(c.e) /\ UNCHANGED credentials
              ELSE pc' = "session" /\ credentials' = c /\ UNCHANGED fault
  /\ UNCHANGED <<fileManager, cookies, sid, json, widget, sent, responses, history,
                 cacheClient>>

\* the operator answers the alert: lines 53-61 and 175
PromptAnswered ==
  /\ pc = "prompt"
  /\ \E response \in PromptResponses :
       LET c == promptForCredentials(response) IN
         /\ cancelled' = response.cancelled
         /\ IF IsThrown(c)
              THEN Abort(c.e) /\ UNCHANGED <<fileManager, credentials>>
            ELSE LET w == cacheData(fileManager, "credentials.json", c) IN
              /\ fileManager' = w.fm
              /\ IF w.threw THEN Abort("TypeError") /\ UNCHANGED credentials
                 ELSE pc' = "session" /\ credentials' = c /\ UNCHANGED fault
  /\ UNCHANGED <<cookies, sid, json, widget, sent, responses, history, cacheClient>>

\* lines 178-180 and fetchToken up to its await: lines 70-82
SessionStage ==
  /\ pc = "session"
  /\ LET c == getCachedData(fileManager, "cookies.json") IN
       IF IsThrown(c) THEN Abort(c.e) /\ UNCHANGED <<cookies, sent>>
       ELSE IF CookiesMiss(c)
         THEN IF IsThrown(GetProp(credentials, "username"))
                THEN Abort("TypeError") /\ UNCHANGED <<cookies, sent>>
                ELSE /\ sent' = Append(sent, LoginRequest(credentials))
                     /\ pc' = "login"
                     /\ cookies' = c
                     /\ UNCHANGED fault
       ELSE pc' = "subscription" /\ cookies' = c /\ UNCHANGED <<fault, sent>>
  /\ UNCHANGED <<fileManager, credentials, sid, json, widget, responses, cancelled, history,
                 cacheClient>>

\* a fetchToken that sends the login request again when it is refused
LoginAnsweredMut ==
  /\ pc = "login"
  /\ \E response \in LoginResponses :
     /\ responses' = Append(responses, response)
     /\ rejected' = IF response.ok /\ response.statusCode # 200 /\ prompts = 1
                       THEN [run |-> runs, credentials |-> credentials]
                       ELSE rejected
     /\ IF ~response.ok
         THEN Abort("transport") /\ UNCHANGED <<fileManager, cookies, sent>>
       ELSE IF ~LoginSucceeded(response)
         THEN /\ sent' = Append(sent, LoginRequest(credentials))
              /\ UNCHANGED <<pc, fault, fileManager, cookies>>
       ELSE LET w == cacheData(fileManager, "cookies.json", response.cookies)
                c == getCachedData(w.fm, "cookies.json") IN
         /\ fileManager' = w.fm
         /\ sent' = sent
         /\ IF w.threw THEN Abort("TypeError") /\ UNCHANGED cookies
            ELSE IF IsThrown(c) THEN Abort(c.e) /\ UNCHANGED cookies
            ELSE pc' = "subscription" /\ cookies' = c /\ UNCHANGED fault
  /\ UNCHANGED <<credentials, sid, json, widget, cancelled, runs, atStart, prompts,
                 cacheClient>>

\* the login endpoint answers: lines 82-88 and 181
LoginAnswered ==
  /\ pc = "login"
  /\ \E response \in LoginResponses :
     /\ responses' = Append(responses, response)
     /\ rejected' = IF response.ok /\ response.statusCode # 200 /\ prompts = 1
                       THEN [run |-> runs, credentials |-> credentials]
                       ELSE rejected
     /\ IF ~response.ok
         THEN Abort("transport") /\ UNCHANGED <<fileManager, cookies>>
       ELSE IF ~LoginSucceeded(response)
         THEN Abort("Failed to fetch token") /\ UNCHANGED <<fileManager, cookies>>
       ELSE LET w == cacheData(fileManager, "cookies.json", response.cookies)
                c == getCachedData(w.fm, "cookies.json") IN
         /\ fileManager' = w.fm
         /\ IF w.threw THEN Abort("TypeError") /\ UNCHANGED cookies
            ELSE IF IsThrown(c) THEN Abort(c.e) /\ UNCHANGED cookies
            ELSE pc' = "subscription" /\ cookies' = c /\ UNCHANGED fault
  /\ UNCHANGED <<credentials, sid, json, widget, sent, cancelled, runs, atStart,
                 prompts, cacheClient>>

\* lines 184-186 and fetchSid up to its await: lines 97-101
SubscriptionStage ==
  /\ pc = "subscription"
  /\ LET s == getCachedData(fileManager, "sid.json")
         h == CookieHeader(cookies) IN
       IF IsThrown(s) THEN Abort(s.e) /\ UNCHANGED <<sid, sent>>
       ELSE IF SidMiss(s)
         THEN IF h.threw
                THEN Abort("TypeError") /\ UNCHANGED <<sid, sent>>
                ELSE /\ sent' = Append(sent, SidRequest(h.header))
                     /\ pc' = "overview"
                     /\ sid' = s
                     /\ UNCHANGED fault
       ELSE pc' = "usage" /\ sid' = s /\ UNCHANGED <<fault, sent>>
  /\ UNCHANGED <<fileManager, credentials, cookies, json, widget, responses, cancelled, history,
                 cacheClient>>

\* the subscription-overview endpoint answers: lines 101-103 and 187
OverviewAnswered ==
  /\ pc = "overview"
  /\ \E response \in SidResponses :
       LET body == IF response.ok THEN JSONparse(response.body) ELSE Thrown("transport")
           main == IF IsThrown(body) THEN body ELSE GetProp(body, "mainSubscription")
           id == IF IsThrown(main) THEN main ELSE GetProp(main, "subscriptionId")
       IN
       /\ responses' = Append(responses, response)
       /\ IF IsThrown(id)
            THEN Abort(id.e) /\ UNCHANGED <<fileManager, sid>>
          ELSE LET w == cacheData(fileManager, "sid.json", id)
                   s == getCachedData(w.fm, "sid.json") IN
            /\ fileManager' = w.fm
            /\ IF w.threw THEN Abort("TypeError") /\ UNCHANGED sid
               ELSE IF IsThrown(s) THEN Abort(s.e) /\ UNCHANGED sid
               ELSE pc' = "usage" /\ sid' = s /\ UNCHANGED fault
  /\ UNCHANGED <<credentials, cookies, json, widget, sent, cancelled, history,
                 cacheClient>>

\* a fetchData that sends the usage lookup without the cached cookies
UsageStageMut ==
  /\ pc = "usage"
  /\ LET h == CookieHeader(cookies) IN
       IF h.threw
         THEN pc' = "render" /\ json' = ErrorPayload(-1) /\ UNCHANGED sent
         ELSE /\ sent' = Append(sent, UsageRequest(sid, <<>>))
              /\ pc' = "load"
              /\ UNCHANGED json
  /\ UNCHANGED <<fileManager, credentials, cookies, sid, widget, fault, responses,
                 cancelled, history, cacheClient>>

\* lines 190-193 and fetchData up to req.load(): lines 114-119
UsageStage ==
  /\ pc = "usage"
  /\ LET h == CookieHeader(cookies) IN
       IF h.threw
         THEN pc' = "render" /\ json' = ErrorPayload(-1) /\ UNCHANGED sent
         ELSE /\ sent' = Append(sent, UsageRequest(sid, h.header))
              /\ pc' = "load"
              /\ UNCHANGED json
  /\ UNCHANGED <<fileManager, credentials, cookies, sid, widget, fault, responses,
                 cancelled, history, cacheClient>>

\* a fetchData that drops the cached cookies when the lookup is refused
UsageLoadedMut ==
  /\ pc = "load"
  /\ \E response \in UsageResponses :
       /\ responses' = Append(responses, response)
       /\ IF ~response.ok
            THEN pc' = "render" /\ json' = ErrorPayload(-1) /\ UNCHANGED <<sent, fileManager>>
          ELSE IF response.statusCode = 200
            THEN /\ sent' = Append(sent, sent[Len(sent)])
                 /\ pc' = "loadJSON"
                 /\ UNCHANGED <<json, fileManager>>
          ELSE /\ pc' = "render"
               /\ json' = ErrorPayload(response.statusCode)
               /\ fileManager' = [fileManager EXCEPT !.file["cookies.json"] = NoFile]
               /\ UNCHANGED sent
  /\ UNCHANGED <<credentials, cookies, sid, widget, fault, cancelled, history,
                 cacheClient>>

\* req.load() of fetchData settles: lines 119-129; on status 200 req.loadJSON()
\* sends the request once more
UsageLoaded ==
  /\ pc = "load"
  /\ \E response \in UsageResponses :
       /\ responses' = Append(responses, response)
       /\ IF ~response.ok
            THEN pc' = "render" /\ json' = ErrorPayload(-1) /\ UNCHANGED sent
          ELSE IF response.statusCode = 200
            THEN /\ sent' = Append(sent, sent[Len(sent)])
                 /\ pc' = "loadJSON"
                 /\ UNCHANGED json
          ELSE /\ pc' = "render"
               /\ json' = ErrorPayload(response.statusCode)
               /\ UNCHANGED sent
  /\ UNCHANGED <<fileManager, credentials, cookies, sid, widget, fault, cancelled,
                 history, cacheClient>>

\* req.loadJSON() of fetchData settles: lines 122 and 127-130
UsageJSONLoaded ==
  /\ pc = "loadJSON"
  /\ \E response \in UsageResponses :
       LET body == IF response.ok THEN JSONparse(response.body) ELSE Thrown("transport")
       IN /\ responses' = Append(responses, response)
          /\ json' = IF IsThrown(body) THEN ErrorPayload(-1) ELSE body
          /\ pc' = "render"
  /\ UNCHANGED <<fileManager, credentials, cookies, sid, widget, fault, sent,
                 cancelled, history, cacheClient>>

\* one line of the widget: addUsage, line 154
UsageLine(data) ==
  IF GetProp(data, "type") = Str("unlimited") THEN <<"unlimited">>
  ELSE <<TemplateString(GetProp(data, "amount")), "/",
         TemplateString(GetProp(data, "totalAmount"))>>

\* the rest of run(): lines 196-245
Render ==
  /\ pc = "render"
  /\ LET code == GetProp(json, "errorCode")
         parts == [i \in 1..3 |-> GetProp(json, <<"data", "sms", "voice">>[i])]
     IN IF IsThrown(code)
          THEN Abort(code.e) /\ UNCHANGED widget
        ELSE IF code = Undefined
          THEN IF \E i \in 1..3 : IsThrown(GetProp(parts[i], "type"))
                 THEN Abort("TypeError") /\ UNCHANGED widget
                 ELSE /\ widget' = [kind |-> "usage",
                                    lines |-> [i \in 1..3 |-> UsageLine(parts[i])]]
                      /\ pc' = "done"
                      /\ UNCHANGED fault
        ELSE /\ widget' = [kind |-> "error",
                           lines |-> << <<"Error loading data (", TemplateString(code),
                                          ")">> >>]
             /\ pc' = "done"
             /\ UNCHANGED fault
  /\ UNCHANGED <<fileManager, credentials, cookies, sid, json, sent, responses, cancelled, history,
                 cacheClient>>

Next ==
  \/ StartRun
  \/ PromptAnswered
  \/ SessionStage
  \/ LoginAnswered
  \/ SubscriptionStage
  \/ OverviewAnswered
  \/ UsageStage
  \/ UsageLoaded
  \/ UsageJSONLoaded
  \/ Render

Spec == Init /\ [][Next]_vars

(***************************************************************************)
(* The operator deletes a cache file by hand between two runs.             *)
(***************************************************************************)
ManualDelete ==
  /\ pc \in {"idle", "done", "aborted"}
  /\ \E n \in CacheNames :
       /\ fileManager.file[n].exists
       /\ fileManager' = [fileManager EXCEPT !.file[n] = NoFile]
  /\ UNCHANGED <<pc, credentials, cookies, sid, json, widget, fault, sent, responses,
                 cancelled, history, cacheClient>>

NextManual == Next \/ ManualDelete

SpecManual == Init /\ [][NextManual]_vars

(***************************************************************************)
(* A client of the cache alone: any value under any name.                  *)
(***************************************************************************)
Scalars == {Null, Str("a"), Num(1)}
Elements == {Null, Cookie("a", "1")}
\* JSON-serializable values: no undefined inside, no repeated key
JsonValues ==
  Scalars
  \cup {Arr(a) : a \in SeqsUpTo(Elements, MaxLen)}
  \cup {Obj(<<>>), Credentials("user", "secret"),
        Obj(<<Member("list", Arr(<<Num(1), Obj(<<>>)>>)), Member("none", Null)>>)}

CachePut ==
  \E n \in CacheNames, v \in JsonValues :
    LET w == cacheData(fileManager, n, v) IN
      /\ ~w.threw
      /\ fileManager' = w.fm
      /\ stored' = [stored EXCEPT ![n] = v]
      /\ got' = NotGot
      /\ UNCHANGED <<pc, credentials, cookies, sid, json, widget, fault, sent,
                     responses, cancelled, history>>

CacheGet ==
  \E n \in CacheNames :
    /\ got' = [acted |-> TRUE, fileName |-> n, value |-> getCachedData(fileManager, n)]
    /\ UNCHANGED <<fileManager, pc, credentials, cookies, sid, json, widget, fault,
                   sent, responses, cancelled, history, stored>>

NextCache == CachePut \/ CacheGet

SpecCache == Init /\ [][NextCache]_vars

(***************************************************************************)
(* Properties.                                                             *)
(***************************************************************************)
Present(v) == v # Undefined
IsLogin(r) == r.url = LoginURL
IsSidLookup(r) == r.url = SidURL
IsUsageLookup(r) == r.url \notin {LoginURL, SidURL}
Sent(Is(_)) == \E i \in 1..Len(sent) : Is(sent[i])
\* dom of the responses that came back for usage lookups
UsageAnswers == {i \in 1..Len(responses) : IsUsageLookup(sent[i])}
\* fetchData has returned in this run
Returned == json # Undefined

\* C1: every request of a run is sent with the artifacts of the stages before
\* it present (not the absent marker undefined) and carries exactly them: the
\* login request the credentials, the subscription lookup the cookies, the
\* usage lookup the cookies and the subscription id; and each artifact was read
\* from the cache as it was when the run started or acquired earlier in the run.
C1_StageArtifactsPresent ==
  \A i \in 1..Len(sent) :
    /\ IsLogin(sent[i]) =>
         /\ Present(credentials)
         /\ sent[i] = LoginRequest(credentials)
         /\ \/ credentials = getCachedData(atStart, "credentials.json")
            \/ prompts = 1 /\ ~cancelled
    /\ IsSidLookup(sent[i]) =>
         /\ Present(cookies)
         /\ sent[i] = SidRequest(CookieHeader(cookies).header)
         /\ \/ cookies = getCachedData(atStart, "cookies.json")
            \/ \E j \in 1..(i - 1) : IsLogin(sent[j]) /\ LoginSucceeded(responses[j])
    /\ IsUsageLookup(sent[i]) =>
         /\ Present(cookies) /\ Present(sid)
         /\ sent[i] = UsageRequest(sid, CookieHeader(cookies).header)
         /\ \/ sid = getCachedData(atStart, "sid.json")
            \/ \E j \in 1..(i - 1) : IsSidLookup(sent[j]) /\ responses[j].ok

\* a run that acquired every artifact itself and reached the usage lookup
C1_Witness ==
  /\ pc = "done"
  /\ prompts = 1
  /\ Sent(IsLogin) /\ Sent(IsSidLookup) /\ Sent(IsUsageLookup)

\* C2: a run whose credential prompt was cancelled is aborted with no request
\* sent and with the cache exactly as it was when the run started.
C2_CancelStopsRun ==
  cancelled => pc = "aborted" /\ sent = <<>> /\ fileManager = atStart /\ widget = NoWidget

C2_Witness == cancelled /\ prompts = 1 /\ fault = "User cancelled the login prompt."

\* C3: a run that starts with cookies.json cached never sends the login
\* request, with or without credentials.json.
C3_NoLoginWhenCookiesCached ==
  (runs > 0 /\ atStart.file["cookies.json"].exists) =>
     pc # "login" /\ ~Sent(IsLogin)

\* a completed run that started with cookies but without credentials
C3_Witness ==
  /\ pc = "done"
  /\ atStart.file["cookies.json"].exists
  /\ ~atStart.file["credentials.json"].exists

\* C4: when the login response has a status other than 200 the run is
\* aborted, cookies.json does not exist and the login stays the last request.
C4_LoginOnlyOn200 ==
  \A i \in 1..Len(responses) :
    (IsLogin(sent[i]) /\ responses[i].ok /\ responses[i].statusCode # 200) =>
       /\ pc = "aborted"
       /\ ~fileManager.file["cookies.json"].exists
       /\ Len(sent) = i
       /\ ~Sent(IsSidLookup) /\ ~Sent(IsUsageLookup)

C4_Witness ==
  /\ Len(responses) = 1 /\ IsLogin(sent[1])
  /\ responses[1].ok /\ responses[1].statusCode = 401
  /\ fault = "Failed to fetch token"

\* C5: once fetchData has returned, its result is the parsed JSON body of
\* every usage response that came with status 200.
C5_Returns200Body ==
  Returned =>
    \A i \in UsageAnswers :
      (responses[i].ok /\ responses[i].statusCode = 200
         /\ ~IsThrown(JSONparse(responses[i].body)))
      => json = JSONparse(responses[i].body)

\* C6: once fetchData has returned, a usage response with a status s other
\* than 200 has given {errorCode: s} and a transport fault {errorCode: -1};
\* fetchData itself never ends the run with a fault.
C6_FailuresBecomePayloads ==
  /\ pc \in {"load", "loadJSON"} => fault = ""
  /\ Returned =>
       \A i \in UsageAnswers :
         /\ ~responses[i].ok => json = ErrorPayload(-1)
         /\ (responses[i].ok /\ responses[i].statusCode # 200)
              => json = ErrorPayload(responses[i].statusCode)

\* C7: no step changes or removes a cookies.json or sid.json that exists, and
\* either file differs from what it was at the start of the run only if it
\* did not exist then.
C7_WrittenOnce ==
  [][\A n \in {"cookies.json", "sid.json"} :
       /\ fileManager.file[n].exists => fileManager'.file[n] = fileManager.file[n]
       /\ fileManager'.file[n] # atStart'.file[n] => ~atStart'.file[n].exists]_vars

\* a later run that found both files and completed
C7_Witness ==
  /\ runs > 1
  /\ pc = "done"
  /\ atStart.file["cookies.json"].exists
  /\ atStart.file["sid.json"].exists

\* C8: no step of the usage stage changes the cache, whatever the lookup
\* gives, and a run is past the usage stage only after sending a usage lookup
\* of its own.
C8_UsageNeverCached ==
  [][/\ pc \in {"usage", "load", "loadJSON", "render"} => fileManager' = fileManager
     /\ pc' \in {"load", "loadJSON", "render", "done"} =>
          \E i \in 1..Len(sent') : sent'[i] = UsageRequest(sid', CookieHeader(cookies').header)
    ]_vars

\* a later run whose usage lookup failed
C8_Witness ==
  /\ runs > 1
  /\ pc = "done"
  /\ widget.kind = "error"
  /\ fileManager = atStart

\* C9: each name that was written reads back as the value last put under
\* it, whatever was put under the other names since, a get that was made
\* returned that value, and a name never put under has no file.
C9_RoundTrip ==
  /\ \A n \in CacheNames :
       /\ stored[n] # Undefined => getCachedData(fileManager, n) = stored[n]
       /\ stored[n] = Undefined => ~fileManager.file[n].exists
  /\ (got.acted /\ stored[got.fileName] # Undefined) => got.value = stored[got.fileName]

\* a get of an array while another name holds a value too
C9_Witness ==
  /\ got.acted
  /\ got.value.t = "array"
  /\ Len(got.value.a) = MaxLen
  /\ \E m \in CacheNames \ {got.fileName} : stored[m] # Undefined

\* C10: a name that was never written reads as undefined, without a fault,
\* and so did the get that was made of it.
C10_MissIsUndefined ==
  /\ \A n \in CacheNames :
       stored[n] = Undefined => getCachedData(fileManager, n) = Undefined
  /\ (got.acted /\ stored[got.fileName] = Undefined) => got.value = Undefined

\* a get while the cache directory does not exist
C10_Witness == got.acted /\ ~fileManager.dir /\ stored[got.fileName] = Undefined

Count(Is(_)) == Cardinality({i \in 1..Len(sent) : Is(sent[i])})
\* the response to sent[i] has come back
Answered(i) == i \in 1..Len(responses)

\* C11: a run sends at most one request to the login endpoint, at most one
\* to the subscription-overview endpoint and at most one to the usage-summary
\* endpoint.
C11_OneShotRequests ==
  /\ Count(IsLogin) <= 1
  /\ Count(IsSidLookup) <= 1
  /\ Count(IsUsageLookup) <= 1

\* the body has no main-subscription object or no subscription id in it
LacksSubscriptionId(body) ==
  LET b == JSONparse(body) IN
    \/ IsThrown(b)
    \/ GetProp(b, "mainSubscription").t # "object"
    \/ GetProp(GetProp(b, "mainSubscription"), "subscriptionId") = Undefined
\* the login of this run was answered and did not succeed
LoginFailed ==
  \E i \in 1..Len(responses) :
    IsLogin(sent[i]) /\ (~responses[i].ok \/ responses[i].statusCode # 200)
\* the subscription lookup of this run was answered and gave no id
SidLookupFailed ==
  \E i \in 1..Len(responses) :
    IsSidLookup(sent[i]) /\ (~responses[i].ok \/ LacksSubscriptionId(responses[i].body))

\* C12: in a run the prompt is shown at most once and the login request and
\* the subscription lookup are sent at most once; when the login or the
\* subscription lookup fails the run is aborted with that request as its
\* last, no further prompt, and nothing computed for or given to the widget.
C12_NoStageRetried ==
  /\ prompts <= 1
  /\ Count(IsLogin) <= 1
  /\ Count(IsSidLookup) <= 1
  /\ (LoginFailed \/ SidLookupFailed) =>
       /\ pc = "aborted"
       /\ fault # ""
       /\ Len(sent) = Len(responses)
       /\ ~Sent(IsUsageLookup)
       /\ json = Undefined
       /\ widget = NoWidget

\* a run that prompted, logged in and then failed in the subscription lookup
C12_Witness == prompts = 1 /\ Count(IsLogin) = 1 /\ SidLookupFailed /\ pc = "aborted"

\* C13: when the subscription-overview response has no main-subscription
\* object or no subscription id in it, the run is aborted with a fault,
\* sid.json does not exist and no usage lookup is sent.
C13_MissingIdAborts ==
  \A i \in 1..Len(responses) :
    (IsSidLookup(sent[i]) /\ responses[i].ok /\ LacksSubscriptionId(responses[i].body)) =>
       /\ pc = "aborted"
       /\ fault # ""
       /\ ~fileManager.file["sid.json"].exists
       /\ ~Sent(IsUsageLookup)

\* the response has a main-subscription object without a subscription id
C13_Witness ==
  /\ pc = "aborted"
  /\ \E i \in 1..Len(responses) :
       /\ IsSidLookup(sent[i])
       /\ responses[i].ok
       /\ responses[i].body = Serialize(Obj(<<Member("mainSubscription", Obj(<<>>))>>))

\* C14: once fetchData has returned, the run is not aborted, and when it has
\* ended the widget shows the usage figures or the error message.
C14_AlwaysShowsSomething ==
  Returned =>
    /\ pc \in {"render", "done"}
    /\ pc = "done" => widget.kind \in {"usage", "error"}

RECURSIVE HeaderOf(_)
\* name=value of each cookie in order, "; " before every cookie but the first
HeaderOf(list) ==
  IF Len(list) = 0 THEN <<>>
  ELSE LET last == list[Len(list)]
           entry == <<GetProp(last, "name").s, "=", GetProp(last, "value").s>>
       IN IF Len(list) = 1 THEN entry
          ELSE HeaderOf(SubSeq(list, 1, Len(list) - 1)) \o <<"; ">> \o entry

\* C15: the subscription lookup and the usage lookup both carry the Cookie
\* header name=value of each cookie, joined by "; " in the order of the
\* cookie sequence, with no separator at either end; [{a,1},{b,2}] gives
\* a=1; b=2.
C15_CookieHeader ==
  \A i \in 1..Len(sent) :
    (IsSidLookup(sent[i]) \/ IsUsageLookup(sent[i])) =>
       LET header == SubSeq(sent[i].headers, 2, Len(sent[i].headers)) IN
         /\ sent[i].headers[1] = "Cookie"
         /\ header = HeaderOf(cookies.a)
         /\ header # <<>> => header[1] # "; " /\ header[Len(header)] # "; "
         /\ cookies = Arr(<<Cookie("a", "1"), Cookie("b", "2")>>) =>
              header = <<"a", "=", "1", "; ", "b", "=", "2">>

\* both lookups were sent in a run with the cookies a=1 and b=2
C15_Witness ==
  /\ cookies = Arr(<<Cookie("a", "1"), Cookie("b", "2")>>)
  /\ Sent(IsSidLookup) /\ Sent(IsUsageLookup)

\* C16: a run shows the prompt exactly when credentials.json did not exist
\* at its start, whatever else is cached, and a run whose prompt was
\* cancelled is aborted with no usage lookup sent.
C16_PromptIffNoCredentials ==
  runs > 0 =>
    /\ prompts = 1 <=> ~atStart.file["credentials.json"].exists
    /\ prompts \in {0, 1}
    /\ cancelled => pc = "aborted" /\ ~Sent(IsUsageLookup) /\ json = Undefined

\* cookies and sid cached, credentials missing, and the prompt cancelled
C16_Witness ==
  /\ cancelled
  /\ atStart.file["cookies.json"].exists
  /\ atStart.file["sid.json"].exists
  /\ ~atStart.file["credentials.json"].exists

\* the login request of this run went out with the refused credentials
LoginSentAgain == Count(IsLogin) = 1 /\ sent[1] = LoginRequest(rejected.credentials)

\* C17 as stated: after a prompted login was refused, credentials.json holds
\* the entered credentials, and every later run shows no prompt and sends the
\* login request with them.
C17_AlwaysLoginAgain ==
  rejected.run > 0 =>
    /\ getCachedData(fileManager, "credentials.json") = rejected.credentials
    /\ runs = rejected.run => pc = "aborted"
    /\ runs > rejected.run =>
         /\ prompts = 0
         /\ credentials = rejected.credentials
         /\ pc # "session" => LoginSentAgain

\* C17: after a prompted login was refused, credentials.json holds the entered
\* credentials, and every later run shows no prompt, has them as its
\* credentials and, if cookies.json did not exist at its start, sends the
\* login request with them.
C17_CachedBeforeValidated ==
  rejected.run > 0 =>
    /\ getCachedData(fileManager, "credentials.json") = rejected.credentials
    /\ runs = rejected.run => pc = "aborted"
    /\ runs > rejected.run =>
         /\ prompts = 0
         /\ credentials = rejected.credentials
         /\ (pc # "session" /\ ~atStart.file["cookies.json"].exists) => LoginSentAgain

\* a later run whose login with the cached credentials was refused again
C17_Witness ==
  /\ rejected.run > 0
  /\ runs > rejected.run
  /\ LoginSentAgain
  /\ LoginFailed
  /\ pc = "aborted"

AllCached(fm) == \A n \in CacheNames : fm.file[n].exists

\* C18: once credentials.json, cookies.json and sid.json all exist no step
\* changes the cache, and a run that started with all three shows no prompt,
\* sends nothing but the usage lookup, built from the cached subscription id
\* and the cached cookies, is not aborted before fetchData has returned and
\* is past fetchData only after sending that lookup.
C18_SteadyState ==
  [][/\ AllCached(fileManager) => fileManager' = fileManager
     /\ (runs' > 0 /\ AllCached(atStart')) =>
          /\ prompts' = 0 /\ ~cancelled'
          /\ fileManager' = atStart'
          /\ \A i \in 1..Len(sent') :
               sent'[i] = UsageRequest(getCachedData(atStart', "sid.json"),
                            CookieHeader(getCachedData(atStart', "cookies.json")).header)
          /\ pc' = "aborted" => json' # Undefined
          /\ pc' \in {"render", "done"} => Len(sent') >= 1
    ]_vars

\* a third run in the steady state whose usage lookup gave an Error Payload
C18_Witness ==
  /\ runs > 2
  /\ AllCached(atStart)
  /\ pc = "done"
  /\ widget.kind = "error"
  /\ json = ErrorPayload(403)

====
